---------------------------- MODULE Spec2Model ----------------------------
(***************************************************************************)
(* State-machine model of the deterministic combat simulator of            *)
(* src/src/simCore.ts (createSim / stepSim and the helpers they call),     *)
(* driven the way the runner (src/unnamed/part_000) drives it.             *)
(*                                                                         *)
(* Numbers.  JavaScript numbers are doubles; every quantity the engine     *)
(* keeps is an integer far below 2^53, so integer arithmetic is exact.     *)
(* TLC's integers are 32-bit signed, so the 32-bit unsigned words of the   *)
(* random generator are kept as two 16-bit halves [h, l].                  *)
(* Math.round is round-half-up (ties towards +infinity): JSRound.          *)
(***************************************************************************)
EXTENDS Integers, Sequences, FiniteSets, TLC

VARIABLES
  spec,    \* the match description the caller holds
  phase,   \* "new": createSim not yet called; "running": a SimState exists;
           \* "failed": createSim threw
  state,   \* the SimState
  fl,      \* the collision roundings taken at exact ties so far, as
           \* [key, fr] pairs: the same doubles round the same way again
  calls,   \* stepSim calls made on state, counted up to maxTicks + 2
  run,     \* 1 for the first run of the description, 2 for the second
  first,   \* the first run's outcome, once the second has started
  last     \* the operation that produced this state

vars == <<spec, phase, state, fl, calls, run, first, last>>

\* ------------------------------------------------------------------------
\* 32-bit words as 16-bit halves
\* ------------------------------------------------------------------------
HALF == 2 ^ 16

Word(h, l) == [h |-> h, l |-> l]

\* x >>> 0 of a non-negative integer below 2^31
ToUint32(n) == Word((n \div HALF) % HALF, n % HALF)

RECURSIVE BitXor(_, _, _)
BitXor(x, y, n) ==
  IF n = 0 THEN 0
  ELSE ((x + y) % 2) + 2 * BitXor(x \div 2, y \div 2, n - 1)

RECURSIVE BitOr(_, _, _)
BitOr(x, y, n) ==
  IF n = 0 THEN 0
  ELSE (IF (x % 2) + (y % 2) > 0 THEN 1 ELSE 0)
       + 2 * BitOr(x \div 2, y \div 2, n - 1)

Xor32(a, b) == Word(BitXor(a.h, b.h, 16), BitXor(a.l, b.l, 16))

\* k | a for a small constant k (k < 2^16)
OrLow(k, a) == Word(a.h, BitOr(k, a.l, 16))

Pow2(n) == 2 ^ n

\* a >>> n for 0 < n < 16
Shr32(a, n) ==
  Word(a.h \div Pow2(n),
       (a.l \div Pow2(n)) + (a.h % Pow2(n)) * Pow2(16 - n))

\* (a + b) mod 2^32
Add32(a, b) ==
  LET lo == a.l + b.l
  IN  Word((a.h + b.h + lo \div HALF) % HALF, lo % HALF)

\* (x * y) mod 2^16 for 16-bit x, y, without leaving 32-bit signed range
MulLow16(x, y) ==
  (x * (y % 256) + ((x * (y \div 256)) % 256) * 256) % HALF

\* Math.imul: the low 32 bits of a * b
Imul(a, b) ==
  LET t1   == a.l * (b.l % 256)
      t2   == a.l * (b.l \div 256)
      low  == t1 + (t2 % 256) * 256
      ll   == Word(((t2 \div 256) + low \div HALF) % HALF, low % HALF)
      mid  == (MulLow16(a.h, b.l) + MulLow16(a.l, b.h)) % HALF
  IN  Word((ll.h + mid) % HALF, ll.l)

\* ------------------------------------------------------------------------
\* Deterministic PRNG (mulberry32)
\* ------------------------------------------------------------------------
\* 0x6D2B79F5
MULBERRY_INC == Word(27947, 31221)

\* The closure's state: t (taken mod 2^32, which is all the bit operations
\* read of it) and n, the number of calls made so far.
mulberry32(seedWord) == [t |-> seedWord, n |-> 0]

\* The closure after one call.
rngAdvance(g) == [t |-> Add32(g.t, MULBERRY_INC), n |-> g.n + 1]

\* The 32-bit numerator of the value the call returns (value = word / 2^32),
\* g being the closure after that call.
rngWord(g) ==
  LET t  == g.t
      x1 == Imul(Xor32(t, Shr32(t, 15)), OrLow(1, t))
      x2 == Xor32(x1, Add32(x1, Imul(Xor32(x1, Shr32(x1, 7)), OrLow(61, x1))))
  IN  Xor32(x2, Shr32(x2, 14))


\* ------------------------------------------------------------------------
\* Fixed-point helpers
\* ------------------------------------------------------------------------
ANGLE_FULL == 65536
TRIG_SCALE == 1000000

\* Mutant of JSRound: a tie goes away from zero.
JSRound_tiesAwayFromZero(num, den) ==
  IF num >= 0 THEN (2 * num + den) \div (2 * den)
  ELSE 0 - ((den - 2 * num) \div (2 * den))

\* Math.round(num / den) for den > 0: nearest integer, a tie going up
\* (towards +infinity), so Math.round(-0.5) is 0 and Math.round(-1.5) is -1.
JSRound(num, den) == (2 * num + den) \div (2 * den)

\* The slice of the COS / SIN tables at the angles the seeds and angular
\* speeds below can reach: COS[a] = Math.round(cos(2 pi a / 65536) * 1e6).
COS(a) ==
  CASE a = 1673 -> 987164    [] a = 2631 -> 968355
    [] a = 2899 -> 961623    [] a = 8173 -> 708394
    [] a = 18057 -> -159710  [] a = 19015 -> -249578
    [] a = 19283 -> -274374  [] a = 24557 -> -705818
    [] a = 34441 -> -987164  [] a = 35399 -> -968355
    [] a = 35667 -> -961623  [] a = 40941 -> -708394
    [] a = 50825 -> 159710   [] a = 51783 -> 249578
    [] a = 52051 -> 274374   [] a = 57325 -> 705818

SIN(a) ==
  CASE a = 1673 -> 159710    [] a = 2631 -> 249578
    [] a = 2899 -> 274374    [] a = 8173 -> 705818
    [] a = 18057 -> 987164   [] a = 19015 -> 968355
    [] a = 19283 -> 961623   [] a = 24557 -> 708394
    [] a = 34441 -> -159710  [] a = 35399 -> -249578
    [] a = 35667 -> -274374  [] a = 40941 -> -705818
    [] a = 50825 -> -987164  [] a = 51783 -> -968355
    [] a = 52051 -> -961623  [] a = 57325 -> -708394

Vec(x, y) == [x |-> x, y |-> y]

\* Integer inputs times an integer scale: the product is already an integer,
\* which Math.round returns unchanged; the result is a fresh Vec.
scaleVec(v, scale) == Vec(JSRound(v.x * scale, 1), JSRound(v.y * scale, 1))

dist2(a, b) ==
  LET dx == a.x - b.x
      dy == a.y - b.y
  IN  dx * dx + dy * dy

\* One line of the canonical event log, as the tuple of its fields in the
\* order the string joins them with "|".
canonicalLine(ev) ==
  CASE ev.e = "hit"     -> <<ev.t, "hit", ev.from, ev.to, ev.dmg>>
    [] ev.e = "dead"    -> <<ev.t, "dead", ev.id>>
    [] ev.e = "wall"    -> <<ev.t, "wall", ev.id, ev.side>>
    [] ev.e = "collide" -> <<ev.t, "collide", ev.a, ev.b>>
    [] ev.e = "timeout" -> <<ev.t, "timeout", ev.winner>>

canonicalEventsString(events) ==
  [i \in 1..Len(events) |-> canonicalLine(events[i])]

\* ------------------------------------------------------------------------
\* Core engine.  A SimState s is a record; a helper that mutates the state
\* it is handed returns the state after it.
\* ------------------------------------------------------------------------
Ball(s, id) == IF id = "A" THEN s.A ELSE s.B

SetBall(s, b) == IF b.id = "A" THEN [s EXCEPT !.A = b] ELSE [s EXCEPT !.B = b]

Other(id) == IF id = "A" THEN "B" ELSE "A"

weaponTipScaled(ball) ==
  LET c  == COS(ball.theta)
      sn == SIN(ball.theta)
  IN  Vec(ball.pos.x + JSRound(ball.weaponReach * c, TRIG_SCALE),
          ball.pos.y + JSRound(ball.weaponReach * sn, TRIG_SCALE))

WallEvent(t, id, side) == [t |-> t, e |-> "wall", id |-> id, side |-> side]

\* Mutant of applyWallBounce: the y axis is tested only when the x axis did
\* not bounce.
applyWallBounce_oneAxis(s, id) ==
  LET ball == Ball(s, id)
      t    == s.tick
      rest == s.wallRest
      hitL == ball.pos.x - ball.r < 0
      hitR == ~hitL /\ ball.pos.x + ball.r > s.arenaW
      hitT == ~hitL /\ ~hitR /\ ball.pos.y - ball.r < 0
      hitB == ~hitL /\ ~hitR /\ ~hitT /\ ball.pos.y + ball.r > s.arenaH
      b2   == IF hitL \/ hitR
                THEN [ball EXCEPT !.pos.x = IF hitL THEN ball.r
                                            ELSE s.arenaW - ball.r,
                                  !.vel.x = JSRound((-ball.vel.x) * rest, 1000)]
              ELSE IF hitT \/ hitB
                THEN [ball EXCEPT !.pos.y = IF hitT THEN ball.r
                                            ELSE s.arenaH - ball.r,
                                  !.vel.y = JSRound((-ball.vel.y) * rest, 1000)]
              ELSE ball
      ev   == IF hitL THEN <<WallEvent(t, id, "L")>>
              ELSE IF hitR THEN <<WallEvent(t, id, "R")>>
              ELSE IF hitT THEN <<WallEvent(t, id, "T")>>
              ELSE IF hitB THEN <<WallEvent(t, id, "B")>>
              ELSE <<>>
  IN  [SetBall(s, b2) EXCEPT !.events = s.events \o ev]

applyWallBounce(s, id) ==
  LET ball == Ball(s, id)
      t    == s.tick
      rest == s.wallRest
      hitL == ball.pos.x - ball.r < 0
      hitR == ~hitL /\ ball.pos.x + ball.r > s.arenaW
      b1   == IF hitL
                THEN [ball EXCEPT !.pos.x = ball.r,
                                  !.vel.x = JSRound((-ball.vel.x) * rest, 1000)]
              ELSE IF hitR
                THEN [ball EXCEPT !.pos.x = s.arenaW - ball.r,
                                  !.vel.x = JSRound((-ball.vel.x) * rest, 1000)]
              ELSE ball
      e1   == IF hitL THEN <<WallEvent(t, id, "L")>>
              ELSE IF hitR THEN <<WallEvent(t, id, "R")>>
              ELSE <<>>
      hitT == b1.pos.y - b1.r < 0
      hitB == ~hitT /\ b1.pos.y + b1.r > s.arenaH
      b2   == IF hitT
                THEN [b1 EXCEPT !.pos.y = b1.r,
                                !.vel.y = JSRound((-b1.vel.y) * rest, 1000)]
              ELSE IF hitB
                THEN [b1 EXCEPT !.pos.y = s.arenaH - b1.r,
                                !.vel.y = JSRound((-b1.vel.y) * rest, 1000)]
              ELSE b1
      e2   == IF hitT THEN <<WallEvent(t, id, "T")>>
              ELSE IF hitB THEN <<WallEvent(t, id, "B")>>
              ELSE <<>>
  IN  [SetBall(s, b2) EXCEPT !.events = s.events \o e1 \o e2]

\* ------------------------------------------------------------------------
\* Ball-ball collision.
\*
\* The code computes the impulse and the push-apart in doubles and rounds
\* them.  As real numbers, with d = (dx, dy), len = sqrt(d2), n = d / len,
\*   impulse = -(1 + e) * (rv . n) / 2 * n = -(1000 + e1000) (rv . d) d / (2000 d2)
\*   push    = n * (rSum - len) / 2,
\* and the double rounds the way the real number does unless the real number
\* is exactly halfway between two integers: there the rounding errors of the
\* doubles decide, and the code's result is one of the two neighbours.  The
\* model takes the rounded values as a parameter fr drawn from
\* collisionRoundings, which holds the one nearest integer, or both
\* neighbours at an exact tie.
\* ------------------------------------------------------------------------
collisionGeom(s) ==
  LET dx == s.B.pos.x - s.A.pos.x
      dy == s.B.pos.y - s.A.pos.y
  IN  [dx   |-> dx,
       dy   |-> dy,
       rSum |-> s.A.r + s.B.r,
       d2   |-> dx * dx + dy * dy,
       rvx  |-> s.B.vel.x - s.A.vel.x,
       rvy  |-> s.B.vel.y - s.A.vel.y,
       e    |-> IF s.A.restitution < s.B.restitution
                  THEN s.A.restitution ELSE s.B.restitution]

collisionSkipped(s) ==
  LET g == collisionGeom(s)
  IN  \/ ~s.A.alive \/ ~s.B.alive
      \/ g.d2 = 0
      \/ g.d2 > g.rSum * g.rSum

\* The integers Math.round may return for a double computed for num / den.
roundOfQuotient(num, den) ==
  IF (2 * num + den) % (2 * den) = 0
    THEN {JSRound(num, den), JSRound(num, den) - 1}
    ELSE {JSRound(num, den)}

\* c * sqrt(d2) <= p, and c * sqrt(d2) = p, in integers
LeSqrt(c, p, d2) ==
  IF c <= 0 /\ p >= 0 THEN TRUE
  ELSE IF c >= 0 /\ p < 0 THEN FALSE
  ELSE IF c >= 0 THEN c * c * d2 <= p * p
  ELSE c * c * d2 >= p * p

EqSqrt(c, p, d2) == c * c * d2 = p * p /\ ((c > 0) = (p > 0)) /\ ((c < 0) = (p < 0))

\* The integers Math.round may return for a double computed for
\* (d / len) * (rSum - len) / 2, len = sqrt(d2): k is the round-half-up of
\* the real value, i.e. the k with (2k - 1 + d) len <= d rSum < (2k + 1 + d) len.
roundOfPush(d, rSum, d2) ==
  LET k == CHOOSE i \in (0 - rSum - 1)..(rSum + 1) :
             /\ LeSqrt(2 * i - 1 + d, d * rSum, d2)
             /\ ~LeSqrt(2 * i + 1 + d, d * rSum, d2)
  IN  IF EqSqrt(2 * k - 1 + d, d * rSum, d2) THEN {k, k - 1} ELSE {k}

NoRounding == [ix |-> 0, iy |-> 0, px |-> 0, py |-> 0]

collisionRoundings(s) ==
  IF collisionSkipped(s) THEN {NoRounding}
  ELSE
    LET g    == collisionGeom(s)
        vdot == g.rvx * g.dx + g.rvy * g.dy
        den  == 2000 * g.d2
        ixs  == roundOfQuotient((0 - (1000 + g.e)) * vdot * g.dx, den)
        iys  == roundOfQuotient((0 - (1000 + g.e)) * vdot * g.dy, den)
        over == g.d2 < g.rSum * g.rSum
        pxs  == IF over THEN roundOfPush(g.dx, g.rSum, g.d2) ELSE {0}
        pys  == IF over THEN roundOfPush(g.dy, g.rSum, g.d2) ELSE {0}
    IN  {[ix |-> a, iy |-> b, px |-> c, py |-> d] :
           a \in ixs, b \in iys, c \in pxs, d \in pys}

\* Mutant of resolveBallBallCollision: the whole separation is given to B.
resolveBallBallCollision_pushOnlyB(s, fr) ==
  LET A == s.A
      B == s.B
      g == collisionGeom(s)
  IN  IF ~A.alive \/ ~B.alive THEN s
      ELSE IF g.d2 = 0 THEN s
      ELSE IF g.d2 > g.rSum * g.rSum THEN s
      ELSE
        LET overlap == g.d2 < g.rSum * g.rSum
            A1 == [A EXCEPT !.vel.x = @ - fr.ix, !.vel.y = @ - fr.iy]
            B1 == [B EXCEPT !.vel.x = @ + fr.ix, !.vel.y = @ + fr.iy]
            B2 == IF overlap
                    THEN [B1 EXCEPT !.pos.x = @ + 2 * fr.px,
                                    !.pos.y = @ + 2 * fr.py]
                    ELSE B1
        IN  [s EXCEPT !.A = A1,
                      !.B = B2,
                      !.events = Append(@, [t |-> s.tick, e |-> "collide",
                                            a |-> A.id, b |-> B.id])]

\* Mutant of resolveBallBallCollision: coinciding centres are not skipped.
resolveBallBallCollision_noZeroGuard(s, fr) ==
  LET A == s.A
      B == s.B
      g == collisionGeom(s)
  IN  IF ~A.alive \/ ~B.alive THEN s
      ELSE IF g.d2 > g.rSum * g.rSum THEN s
      ELSE
        LET overlap == g.d2 < g.rSum * g.rSum
            A1 == [A EXCEPT !.vel.x = @ - fr.ix, !.vel.y = @ - fr.iy]
            B1 == [B EXCEPT !.vel.x = @ + fr.ix, !.vel.y = @ + fr.iy]
            A2 == IF overlap
                    THEN [A1 EXCEPT !.pos.x = @ - fr.px, !.pos.y = @ - fr.py]
                    ELSE A1
            B2 == IF overlap
                    THEN [B1 EXCEPT !.pos.x = @ + fr.px, !.pos.y = @ + fr.py]
                    ELSE B1
        IN  [s EXCEPT !.A = A2,
                      !.B = B2,
                      !.events = Append(@, [t |-> s.tick, e |-> "collide",
                                            a |-> A.id, b |-> B.id])]

resolveBallBallCollision(s, fr) ==
  LET A == s.A
      B == s.B
      g == collisionGeom(s)
  IN  IF ~A.alive \/ ~B.alive THEN s
      ELSE IF g.d2 = 0 THEN s
      ELSE IF g.d2 > g.rSum * g.rSum THEN s
      ELSE
        LET overlap == g.d2 < g.rSum * g.rSum
            A1 == [A EXCEPT !.vel.x = @ - fr.ix, !.vel.y = @ - fr.iy]
            B1 == [B EXCEPT !.vel.x = @ + fr.ix, !.vel.y = @ + fr.iy]
            A2 == IF overlap
                    THEN [A1 EXCEPT !.pos.x = @ - fr.px, !.pos.y = @ - fr.py]
                    ELSE A1
            B2 == IF overlap
                    THEN [B1 EXCEPT !.pos.x = @ + fr.px, !.pos.y = @ + fr.py]
                    ELSE B1
        IN  [s EXCEPT !.A = A2,
                      !.B = B2,
                      !.events = Append(@, [t |-> s.tick, e |-> "collide",
                                            a |-> A.id, b |-> B.id])]

\* ------------------------------------------------------------------------
\* Weapon hits
\* ------------------------------------------------------------------------
\* Math.round((u - 0.5) * 20 * SCALE) for u = w / 2^32, w = h * 2^16 + l.
\* Every product is exact in doubles, so this is
\*   floor((40 SCALE w + 2^32) / 2^33) - 10 SCALE,
\* computed on the halves of w.
hitJitter(w, SCALE) ==
  ((40 * SCALE * w.h + HALF + (40 * SCALE * w.l) \div HALF) \div (2 * HALF))
  - 10 * SCALE

\* Mutant of hitDamage: the ramp counts the hit being made.
hitDamage_rampCountsThisHit(attacker, hc) ==
  attacker.baseDamage + attacker.ramp * hc

\* The damage of the attacker's hc-th hit.
hitDamage(attacker, hc) == attacker.baseDamage + attacker.ramp * (hc - 1)

\* Mutant of applyHit: damageDealt grows by the base damage, without the ramp.
applyHit_dealtBaseOnly(s, attId, vicId) ==
  LET attacker == Ball(s, attId)
      victim   == Ball(s, vicId)
      hc   == attacker.hitCount + 1
      dmg  == hitDamage(attacker, hc)
      g1   == rngAdvance(s.rng)
      jx   == hitJitter(rngWord(g1), s.SCALE)
      g2   == rngAdvance(g1)
      jy   == hitJitter(rngWord(g2), s.SCALE)
      hp1  == victim.hp - dmg
      att1 == [attacker EXCEPT !.hitCount = hc,
                               !.damageDealt = @ + attacker.baseDamage]
      vic1 == [victim EXCEPT !.hp = hp1,
                             !.vel.x = @ + jx,
                             !.vel.y = @ + jy,
                             !.alive = IF hp1 <= 0 THEN FALSE ELSE @]
      evs  == <<[t |-> s.tick, e |-> "hit", from |-> attacker.id,
                 to |-> victim.id, dmg |-> dmg]>>
              \o (IF hp1 <= 0
                    THEN <<[t |-> s.tick, e |-> "dead", id |-> victim.id]>>
                    ELSE <<>>)
  IN  [SetBall(SetBall(s, att1), vic1) EXCEPT
         !.events = s.events \o evs,
         !.rng = g2]

\* Mutant of applyHit: death is registered only below zero.
applyHit_deadBelowZero(s, attId, vicId) ==
  LET attacker == Ball(s, attId)
      victim   == Ball(s, vicId)
      hc   == attacker.hitCount + 1
      dmg  == hitDamage(attacker, hc)
      g1   == rngAdvance(s.rng)
      jx   == hitJitter(rngWord(g1), s.SCALE)
      g2   == rngAdvance(g1)
      jy   == hitJitter(rngWord(g2), s.SCALE)
      hp1  == victim.hp - dmg
      att1 == [attacker EXCEPT !.hitCount = hc,
                               !.damageDealt = @ + dmg]
      vic1 == [victim EXCEPT !.hp = hp1,
                             !.vel.x = @ + jx,
                             !.vel.y = @ + jy,
                             !.alive = IF hp1 < 0 THEN FALSE ELSE @]
      evs  == <<[t |-> s.tick, e |-> "hit", from |-> attacker.id,
                 to |-> victim.id, dmg |-> dmg]>>
              \o (IF hp1 < 0
                    THEN <<[t |-> s.tick, e |-> "dead", id |-> victim.id]>>
                    ELSE <<>>)
  IN  [SetBall(SetBall(s, att1), vic1) EXCEPT
         !.events = s.events \o evs,
         !.rng = g2]

\* Mutant of applyHit: the jitter's y value is drawn before its x value.
applyHit_jitterYThenX(s, attId, vicId) ==
  LET attacker == Ball(s, attId)
      victim   == Ball(s, vicId)
      hc   == attacker.hitCount + 1
      dmg  == hitDamage(attacker, hc)
      g1   == rngAdvance(s.rng)
      jy   == hitJitter(rngWord(g1), s.SCALE)
      g2   == rngAdvance(g1)
      jx   == hitJitter(rngWord(g2), s.SCALE)
      hp1  == victim.hp - dmg
      att1 == [attacker EXCEPT !.hitCount = hc,
                               !.damageDealt = @ + dmg]
      vic1 == [victim EXCEPT !.hp = hp1,
                             !.vel.x = @ + jx,
                             !.vel.y = @ + jy,
                             !.alive = IF hp1 <= 0 THEN FALSE ELSE @]
      evs  == <<[t |-> s.tick, e |-> "hit", from |-> attacker.id,
                 to |-> victim.id, dmg |-> dmg]>>
              \o (IF hp1 <= 0
                    THEN <<[t |-> s.tick, e |-> "dead", id |-> victim.id]>>
                    ELSE <<>>)
  IN  [SetBall(SetBall(s, att1), vic1) EXCEPT
         !.events = s.events \o evs,
         !.rng = g2]

\* The body of checkHit once the tip is in contact.
applyHit(s, attId, vicId) ==
  LET attacker == Ball(s, attId)
      victim   == Ball(s, vicId)
      hc   == attacker.hitCount + 1
      dmg  == hitDamage(attacker, hc)
      g1   == rngAdvance(s.rng)
      jx   == hitJitter(rngWord(g1), s.SCALE)
      g2   == rngAdvance(g1)
      jy   == hitJitter(rngWord(g2), s.SCALE)
      hp1  == victim.hp - dmg
      att1 == [attacker EXCEPT !.hitCount = hc,
                               !.damageDealt = @ + dmg]
      vic1 == [victim EXCEPT !.hp = hp1,
                             !.vel.x = @ + jx,
                             !.vel.y = @ + jy,
                             !.alive = IF hp1 <= 0 THEN FALSE ELSE @]
      evs  == <<[t |-> s.tick, e |-> "hit", from |-> attacker.id,
                 to |-> victim.id, dmg |-> dmg]>>
              \o (IF hp1 <= 0
                    THEN <<[t |-> s.tick, e |-> "dead", id |-> victim.id]>>
                    ELSE <<>>)
  IN  [SetBall(SetBall(s, att1), vic1) EXCEPT
         !.events = s.events \o evs,
         !.rng = g2]

tipInContact(attacker, victim) ==
  LET tip == weaponTipScaled(attacker)
      rr  == attacker.tipR + victim.r
  IN  dist2(tip, victim.pos) <= rr * rr

\* Mutant of checkHit: the alive guard is missing.
checkHit_noAliveGuard(s, attId, vicId) ==
  IF tipInContact(Ball(s, attId), Ball(s, vicId))
    THEN applyHit(s, attId, vicId)
  ELSE s

\* Mutant of checkHit: a kill resets the attacker's hit count.
checkHit_resetOnKill(s, attId, vicId) ==
  IF ~Ball(s, attId).alive \/ ~Ball(s, vicId).alive THEN s
  ELSE IF tipInContact(Ball(s, attId), Ball(s, vicId))
    THEN LET r == applyHit(s, attId, vicId)
         IN  IF Ball(r, vicId).alive THEN r
             ELSE SetBall(r, [Ball(r, attId) EXCEPT !.hitCount = 0])
  ELSE s

checkHit(s, attId, vicId) ==
  IF ~Ball(s, attId).alive \/ ~Ball(s, vicId).alive THEN s
  ELSE IF tipInContact(Ball(s, attId), Ball(s, vicId))
    THEN applyHit(s, attId, vicId)
  ELSE s

\* ------------------------------------------------------------------------
\* Construction
\* ------------------------------------------------------------------------
\* 0xA1B2C3D4 and 0xB4C3D2A1
JITTER_A == Word(41394, 50132)
JITTER_B == Word(46275, 53921)

\* The BallState initBall returns for a resolved weapon.
ballState(sp, SCALE, b, jitter, weapon) ==
  LET rng    == rngAdvance(mulberry32(Xor32(ToUint32(sp.seed), jitter)))
      \* floor(u * 65536) & 0xffff, u = word / 2^32: the word's high half
      theta0 == rngWord(rng).h % ANGLE_FULL
  IN  [id          |-> b.id,
       hp          |-> b.hp,
       r           |-> JSRound(b.radius * SCALE, 1),
       pos         |-> scaleVec(b.pos, SCALE),
       vel         |-> scaleVec(b.vel, SCALE),
       theta       |-> theta0,
       omega       |-> weapon.omega,
       weaponReach |-> JSRound(weapon.reach * SCALE, 1),
       tipR        |-> JSRound(weapon.tipRadius * SCALE, 1),
       baseDamage  |-> weapon.baseDamage,
       ramp        |-> weapon.ramp,
       hitCount    |-> 0,
       alive       |-> TRUE,
       speedMult   |-> weapon.speedMult,
       damageDealt |-> 0,
       restitution |-> IF "restitution" \in DOMAIN b
                         THEN b.restitution ELSE 1000]

\* Mutant of initBall: an unknown weaponId falls back to a default weapon.
initBall_fallback(sp, SCALE, b, jitter) ==
  [threw |-> FALSE,
   ball  |-> ballState(sp, SCALE, b, jitter,
                       IF b.weaponId \in DOMAIN sp.weapons
                         THEN sp.weapons[b.weaponId] ELSE sp.weapons["fist"])]

\* Returns [threw |-> TRUE] for an unknown weaponId, else the BallState.
initBall(sp, SCALE, b, jitter) ==
  IF b.weaponId \notin DOMAIN sp.weapons THEN [threw |-> TRUE]
  ELSE [threw |-> FALSE,
        ball  |-> ballState(sp, SCALE, b, jitter, sp.weapons[b.weaponId])]

\* Mutant of sharedRng: the stream is seeded from ambient process state as
\* well as from the description.
sharedRng_ambient(sp) == mulberry32(ToUint32(sp.seed + calls))

\* The match's shared random stream.
sharedRng(sp) == mulberry32(ToUint32(sp.seed))

\* Returns [threw |-> TRUE] when initBall throws, else the fresh SimState.
\* winner is "undefined" until the match is decided.
createSim(sp) ==
  LET SCALE == sp.sim.scale
      a     == initBall(sp, SCALE, sp.ballA, JITTER_A)
      b     == initBall(sp, SCALE, sp.ballB, JITTER_B)
  IN  IF a.threw \/ b.threw THEN [threw |-> TRUE]
      ELSE [threw |-> FALSE,
            state |-> [spec     |-> sp,
                       SCALE    |-> SCALE,
                       arenaW   |-> JSRound(sp.arena.w * SCALE, 1),
                       arenaH   |-> JSRound(sp.arena.h * SCALE, 1),
                       wallRest |-> sp.arena.wallRestitution,
                       tick     |-> 0,
                       A        |-> a.ball,
                       B        |-> b.ball,
                       events   |-> <<>>,
                       rng      |-> sharedRng(sp),
                       done     |-> FALSE,
                       winner   |-> "undefined"]]

\* ------------------------------------------------------------------------
\* One step
\* ------------------------------------------------------------------------
\* Steps 1 to 3 of the pipeline: weapon angles, move, wall bounce.
movedAndBounced(s) ==
  LET A  == s.A
      B  == s.B
      A1 == [A EXCEPT !.theta = (A.theta + A.omega) % ANGLE_FULL,
                      !.pos.x = @ + JSRound(A.vel.x * A.speedMult, 1000),
                      !.pos.y = @ + JSRound(A.vel.y * A.speedMult, 1000)]
      B1 == [B EXCEPT !.theta = (B.theta + B.omega) % ANGLE_FULL,
                      !.pos.x = @ + JSRound(B.vel.x * B.speedMult, 1000),
                      !.pos.y = @ + JSRound(B.vel.y * B.speedMult, 1000)]
  IN  applyWallBounce(applyWallBounce([s EXCEPT !.A = A1, !.B = B1], "A"), "B")

\* Mutant of timeoutWinner: the damage rung of the ladder is missing.
timeoutWinner_noDamageRung(s) ==
  IF s.A.hp # s.B.hp THEN (IF s.A.hp > s.B.hp THEN "A" ELSE "B")
  ELSE (IF rngWord(rngAdvance(s.rng)).h < HALF \div 2 THEN "A" ELSE "B")

timeoutWinner(s) ==
  IF s.A.hp # s.B.hp THEN (IF s.A.hp > s.B.hp THEN "A" ELSE "B")
  ELSE IF s.A.damageDealt # s.B.damageDealt
    THEN (IF s.A.damageDealt > s.B.damageDealt THEN "A" ELSE "B")
  \* rng() < 0.5: the top bit of the word is clear
  ELSE (IF rngWord(rngAdvance(s.rng)).h < HALF \div 2 THEN "A" ELSE "B")

\* Mutant of timeoutDraws: the tie-break value is drawn at every timeout.
timeoutDraws_always(s) == TRUE

timeoutDraws(s) == s.A.hp = s.B.hp /\ s.A.damageDealt = s.B.damageDealt

\* Mutant of timedOut: the ceiling test off by one.
timedOut_offByOne(s) == s.tick > s.spec.sim.maxTicks

timedOut(s) == s.tick >= s.spec.sim.maxTicks

runsPipeline(s) == ~s.done /\ s.A.alive /\ s.B.alive /\ ~timedOut(s)

\* Mutant of markDeath: the winner is the combatant that died.
markDeath_winnerIsVictim(s) ==
  IF ~s.A.alive \/ ~s.B.alive
    THEN [s EXCEPT !.done = TRUE,
                   !.winner = IF s.A.alive THEN "B" ELSE "A"]
    ELSE s

\* Mutant of markDeath: a death is left for the next call's guard to finish.
markDeath_nextCall(s) == s

\* The end of the step: a death in this tick finishes the match.
markDeath(s) ==
  IF ~s.A.alive \/ ~s.B.alive
    THEN [s EXCEPT !.done = TRUE,
                   !.winner = IF s.A.alive THEN "A" ELSE "B"]
    ELSE s

\* Mutant of stepRunning: B's hit check runs before A's.
stepRunning_hitsBFirst(s, fr) ==
  IF ~s.A.alive \/ ~s.B.alive
    THEN [s EXCEPT !.done = TRUE,
                   !.winner = IF s.A.alive THEN "A" ELSE "B"]
  ELSE IF timedOut(s)
    THEN LET winner == timeoutWinner(s)
         IN  [s EXCEPT !.events = Append(@, [t |-> s.tick, e |-> "timeout",
                                             winner |-> winner]),
                       !.rng = IF timeoutDraws(s) THEN rngAdvance(@) ELSE @,
                       !.done = TRUE,
                       !.winner = winner]
  ELSE
    LET s3 == movedAndBounced(s)
        s4 == resolveBallBallCollision(s3, fr)
        s5 == checkHit(checkHit(s4, "B", "A"), "A", "B")
    IN  markDeath([s5 EXCEPT !.tick = @ + 1])

\* stepSim on a state that is not done, fr being the rounded collision
\* values of this call.
stepRunning(s, fr) ==
  IF ~s.A.alive \/ ~s.B.alive
    THEN [s EXCEPT !.done = TRUE,
                   !.winner = IF s.A.alive THEN "A" ELSE "B"]
  ELSE IF timedOut(s)
    THEN LET winner == timeoutWinner(s)
         IN  [s EXCEPT !.events = Append(@, [t |-> s.tick, e |-> "timeout",
                                             winner |-> winner]),
                       !.rng = IF timeoutDraws(s) THEN rngAdvance(@) ELSE @,
                       !.done = TRUE,
                       !.winner = winner]
  ELSE
    LET s3 == movedAndBounced(s)
        s4 == resolveBallBallCollision(s3, fr)
        s5 == checkHit(checkHit(s4, "A", "B"), "B", "A")
    IN  markDeath([s5 EXCEPT !.tick = @ + 1])

\* Mutant of stepSim: the done guard is missing.
stepSim_noDoneGuard(s, fr) == stepRunning(s, fr)

stepSim(s, fr) == IF s.done THEN s ELSE stepRunning(s, fr)

\* ------------------------------------------------------------------------
\* Match descriptions the model runs
\* ------------------------------------------------------------------------
MaxTicksBound == 3

Seeds == {1, 7}
Scales == {2}
HpValues == {2, 4}
WallRestitutions == {1000, 500}

Weapons ==
  [sword |-> [reach |-> 4, tipRadius |-> 2, omega |-> 16384,
              baseDamage |-> 1, ramp |-> 1, speedMult |-> 1000],
   lance |-> [reach |-> 4, tipRadius |-> 2, omega |-> 0,
              baseDamage |-> 2, ramp |-> 0, speedMult |-> 500],
   fist  |-> [reach |-> 0, tipRadius |-> 0, omega |-> 0,
              baseDamage |-> 1, ramp |-> 0, speedMult |-> 1000]]

\* "axe" is not a key of Weapons.
WeaponIdsA == {"sword", "lance", "fist", "axe"}
WeaponIdsB == {"sword", "fist", "axe"}

BallSpecsA ==
  {[id |-> "A", hp |-> h, radius |-> 2, pos |-> Vec(2, 5), vel |-> v,
    weaponId |-> w] :
     h \in HpValues, v \in {Vec(0, 0), Vec(-3, 1)}, w \in WeaponIdsA}

BallSpecsB ==
  LET plain == {[id |-> "B", hp |-> h, radius |-> 2, pos |-> p, vel |-> v,
                 weaponId |-> w] :
                  h \in HpValues, p \in {Vec(7, 5), Vec(4, 5)},
                  v \in {Vec(0, 0), Vec(-3, 0)}, w \in WeaponIdsB}
  IN  plain \cup {[restitution |-> 500] @@ b : b \in plain}

Specs ==
  {[seed    |-> sd,
    sim     |-> [scale |-> sc, maxTicks |-> mt],
    arena   |-> [w |-> 20, h |-> 10, wallRestitution |-> wr],
    weapons |-> Weapons,
    ballA   |-> a,
    ballB   |-> b] :
     sd \in Seeds, sc \in Scales, mt \in {0, MaxTicksBound},
     wr \in WallRestitutions, a \in BallSpecsA, b \in BallSpecsB}

\* ------------------------------------------------------------------------
\* State machine: the runner's createSim(spec); while (!sim.done) stepSim(sim),
\* with further stepSim calls allowed after done, and the same description
\* run a second time.
\* ------------------------------------------------------------------------
NoState == [none |-> TRUE]

Outcome(s) ==
  [events |-> s.events, log |-> canonicalEventsString(s.events),
   winner |-> s.winner, ticks |-> s.tick]

Init ==
  /\ spec \in Specs
  /\ phase = "new"
  /\ state = NoState
  /\ fl = {}
  /\ calls = 0
  /\ run = 1
  /\ first = NoState
  /\ last = "init"

CreateSim ==
  /\ phase = "new"
  /\ LET res == createSim(spec)
     IN  IF res.threw
           THEN phase' = "failed" /\ state' = state
           ELSE phase' = "running" /\ state' = res.state
  /\ last' = "createSim"
  /\ UNCHANGED <<spec, fl, calls, run, first>>

\* The rounded collision values stepSim(s) may use.
flChoices(s) ==
  IF ~runsPipeline(s) THEN {NoRounding}
  ELSE
    LET s3    == movedAndBounced(s)
        known == {m \in fl : m.key = collisionGeom(s3)}
    IN  IF known # {} THEN {m.fr : m \in known} ELSE collisionRoundings(s3)

flRecord(s, fr) ==
  IF ~runsPipeline(s) THEN fl
  ELSE
    LET s3 == movedAndBounced(s)
    IN  IF Cardinality(collisionRoundings(s3)) > 1
          THEN fl \cup {[key |-> collisionGeom(s3), fr |-> fr]}
          ELSE fl

StepSim ==
  /\ phase = "running"
  /\ \E fr \in flChoices(state) :
       /\ state' = stepSim(state, fr)
       /\ fl' = flRecord(state, fr)
  /\ calls' = IF calls < spec.sim.maxTicks + 2 THEN calls + 1 ELSE calls
  /\ last' = "stepSim"
  /\ UNCHANGED <<spec, phase, run, first>>

\* The caller runs the same description again from a fresh createSim.
Rerun ==
  /\ phase = "running"
  /\ state.done
  /\ run = 1
  /\ first' = Outcome(state)
  /\ state' = createSim(spec).state
  /\ run' = 2
  /\ calls' = 0
  /\ last' = "createSim"
  /\ UNCHANGED <<spec, phase, fl>>

Next == CreateSim \/ StepSim \/ Rerun

Spec == Init /\ [][Next]_vars

\* ------------------------------------------------------------------------
\* Properties
\* ------------------------------------------------------------------------
Running == phase = "running"

maxTicks == spec.sim.maxTicks

\* The events a step appended.
NewEvents == SubSeq(state'.events, Len(state.events) + 1, Len(state'.events))

\* A stepSim call on an existing SimState.
StepCall == Running /\ last' = "stepSim"

\* C1: the tick counter never exceeds maxTicks, the match is done after at
\* most maxTicks + 1 stepSim calls, and a call on a running match either
\* finishes it or raises tick by exactly one.
C1_TerminationBound ==
  /\ [](Running => /\ state.tick <= maxTicks
                   /\ (calls >= maxTicks + 1 => state.done))
  /\ [][(StepCall /\ ~state.done) =>
          (state'.done \/ state'.tick = state.tick + 1)]_vars

\* C1 witness: a match with a positive ceiling that finished exactly on call
\* maxTicks + 1, its tick counter at the ceiling.
C1_Witness ==
  /\ Running /\ state.done
  /\ maxTicks > 0 /\ calls = maxTicks + 1 /\ state.tick = maxTicks

\* A hit event to X at tick t directly followed by X's dead event at tick t.
KillAt(evs, X, t) ==
  \E i \in 1..(Len(evs) - 1) :
    /\ evs[i].e = "hit" /\ evs[i].to = X /\ evs[i].t = t
    /\ evs[i + 1] = [t |-> t, e |-> "dead", id |-> X]

LadderWinner(a, b, g) ==
  IF a.hp > b.hp THEN "A"
  ELSE IF a.hp < b.hp THEN "B"
  ELSE IF a.damageDealt > b.damageDealt THEN "A"
  ELSE IF a.damageDealt < b.damageDealt THEN "B"
  ELSE IF rngWord(rngAdvance(g)).h < 32768 THEN "A" ELSE "B"

BothTied(s) == s.A.hp = s.B.hp /\ s.A.damageDealt = s.B.damageDealt

\* C3: a call on a running match at the tick ceiling runs no pipeline step,
\* appends exactly one timeout event with t = tick and finishes with the
\* ladder's winner; the random stream advances (by one draw) only when hp
\* and damageDealt are both tied.
C3_TimeoutLadder ==
  [][(StepCall /\ ~state.done /\ state.A.alive /\ state.B.alive
        /\ state.tick >= maxTicks) =>
       LET w == LadderWinner(state.A, state.B, state.rng)
       IN  /\ state'.events =
                Append(state.events,
                       [t |-> state.tick, e |-> "timeout", winner |-> w])
           /\ state'.done /\ state'.winner = w
           /\ state'.tick = state.tick
           /\ state'.A = state.A /\ state'.B = state.B
           /\ state'.rng = IF BothTied(state) THEN rngAdvance(state.rng)
                           ELSE state.rng]_vars

LastEvent(s) == s.events[Len(s.events)]

\* C3 witness: a timeout at a positive ceiling with hp and damageDealt both
\* tied, decided for A by the one value drawn (below 0.5).
C3_Witness ==
  /\ Running /\ state.done /\ Len(state.events) > 0
  /\ LastEvent(state).e = "timeout" /\ LastEvent(state).t = maxTicks
  /\ maxTicks > 0
  /\ BothTied(state)
  /\ state.winner = "A"
  /\ state.rng.n = 2 * (state.A.hitCount + state.B.hitCount) + 1

\* The winner the first stepSim call gives description sp.
FirstCallWinner(sp) == stepSim(createSim(sp).state, NoRounding).winner

OnlyTimeoutAtZero(s) ==
  s.events = <<[t |-> 0, e |-> "timeout", winner |-> s.winner]>>

\* C4 as stated: with maxTicks = 0 the first call finishes the match with
\* exactly one timeout event at tick 0, and the winner is decided purely by
\* the two starting hp values: no random draw, the same for every seed.
C4_AsStated ==
  (Running /\ maxTicks = 0 /\ calls >= 1) =>
    /\ state.done /\ OnlyTimeoutAtZero(state)
    /\ state.rng.n = 0
    /\ \A sd \in Seeds : FirstCallWinner([spec EXCEPT !.seed = sd]) = state.winner

\* C4 amended: with maxTicks = 0 the first call finishes the match with
\* exactly one timeout event at tick 0; if the starting hp values differ the
\* higher one wins, with no random draw and whatever the seed; if they are
\* equal the winner is decided by one draw from the shared stream.
C4_MaxTicksZero ==
  (Running /\ maxTicks = 0 /\ calls >= 1) =>
    /\ state.done /\ state.tick = 0 /\ OnlyTimeoutAtZero(state)
    /\ IF spec.ballA.hp # spec.ballB.hp
         THEN /\ state.winner = IF spec.ballA.hp > spec.ballB.hp THEN "A" ELSE "B"
              /\ state.rng.n = 0
              /\ \A sd \in Seeds :
                   FirstCallWinner([spec EXCEPT !.seed = sd]) = state.winner
         ELSE /\ state.rng.n = 1
              /\ state.winner =
                   IF rngWord(rngAdvance(mulberry32(ToUint32(spec.seed)))).h < 32768
                     THEN "A" ELSE "B"

\* C4 witness: seed 1, two stationary combatants with zero-reach weapons,
\* maxTicks = 0, unequal starting hp: finished by the first call, B winning.
C4_Witness ==
  /\ Running /\ maxTicks = 0 /\ calls = 1 /\ state.done
  /\ spec.seed = 1
  /\ spec.ballA.weaponId = "fist" /\ spec.ballB.weaponId = "fist"
  /\ spec.ballA.vel = Vec(0, 0) /\ spec.ballB.vel = Vec(0, 0)
  /\ spec.ballA.hp < spec.ballB.hp /\ state.winner = "B"
  /\ OnlyTimeoutAtZero(state)

\* The indices of the hit events of evs addressed to X.
HitsTo(evs, X) == {i \in 1..Len(evs) : evs[i].e = "hit" /\ evs[i].to = X}

\* C5: a stepSim call never raises a combatant's hp; it lowers it only
\* together with exactly one hit event addressed to that combatant, whose
\* dmg is the drop and equals the attacker's baseDamage + ramp * (hitCount - 1)
\* with hitCount as incremented for that hit; without such an event hp is
\* unchanged.
C5_HealthMonotone ==
  [][StepCall =>
       \A X \in {"A", "B"} :
         LET old  == Ball(state, X).hp
             new  == Ball(state', X).hp
             att  == Ball(state', Other(X))
             hits == HitsTo(NewEvents, X)
         IN  /\ new <= old
             /\ hits = {} => new = old
             /\ new < old =>
                  /\ Cardinality(hits) = 1
                  /\ \A i \in hits :
                       /\ NewEvents[i].dmg = old - new
                       /\ NewEvents[i].dmg =
                            att.baseDamage + att.ramp * (att.hitCount - 1)]_vars

StartHp(X) == IF X = "A" THEN spec.ballA.hp ELSE spec.ballB.hp

\* C5 witness: a ramping weapon has hit the other combatant twice (1 then
\* 2), which lives on with its starting hp less 3.
C5_Witness ==
  /\ Running
  /\ \E X \in {"A", "B"} :
       /\ Ball(state, X).ramp > 0 /\ Ball(state, X).hitCount = 2
       /\ Ball(state, Other(X)).alive
       /\ Ball(state, Other(X)).hp = StartHp(Other(X)) - 3

\* The number of hit events of evs made by X.
HitsFrom(evs, X) ==
  Cardinality({i \in 1..Len(evs) : evs[i].e = "hit" /\ evs[i].from = X})

\* C6: hitCount of X always equals the number of hit events from X in the
\* log, and no stepSim call (the killing step and calls after the finish
\* included) lowers it.
C6_HitCountMonotone ==
  /\ [](Running => \A X \in {"A", "B"} :
                     Ball(state, X).hitCount = HitsFrom(state.events, X))
  /\ [][StepCall => \A X \in {"A", "B"} :
                      Ball(state', X).hitCount >= Ball(state, X).hitCount]_vars

\* C6 witness: A killed B with its second or later hit, and stepSim was
\* called again after the match was finished.
C6_Witness ==
  /\ Running /\ state.done /\ ~state.B.alive
  /\ state.A.hitCount >= 2
  /\ calls > state.tick

\* C7: a stepSim call on a done state changes nothing of the SimState.
C7_FinishedAbsorbing ==
  [][(StepCall /\ state.done) => state' = state]_vars

\* C7 witness: a match that timed out at a positive ceiling, with at least
\* one more stepSim call made after it was done.
C7_Witness ==
  /\ Running /\ state.done /\ maxTicks > 0
  /\ calls = maxTicks + 2
  /\ LastEvent(state).e = "timeout"

Resolves(b) == b.weaponId \in DOMAIN spec.weapons

\* C9: createSim throws, leaving no SimState and no stepSim call possible,
\* exactly when a weaponId is not a key of weapons; otherwise it returns the
\* fresh state: tick 0, no events, not done, no winner, both alive with
\* hitCount = 0 and damageDealt = 0.
C9_ConfigError ==
  /\ phase = "new" => last = "init"
  /\ phase = "failed" =>
       /\ ~Resolves(spec.ballA) \/ ~Resolves(spec.ballB)
       /\ state = NoState /\ calls = 0
  /\ Running => Resolves(spec.ballA) /\ Resolves(spec.ballB)
  /\ (Running /\ last = "createSim") =>
       /\ state.tick = 0 /\ state.events = <<>>
       /\ ~state.done /\ state.winner = "undefined"
       /\ \A X \in {"A", "B"} :
            /\ Ball(state, X).alive
            /\ Ball(state, X).hitCount = 0
            /\ Ball(state, X).damageDealt = 0

\* C9 witness: A's weapon resolves, B's does not, and createSim has thrown.
C9_Witness ==
  /\ phase = "failed" /\ last = "createSim"
  /\ Resolves(spec.ballA) /\ ~Resolves(spec.ballB)

Inside(s, b) ==
  /\ b.r <= b.pos.x /\ b.pos.x <= s.arenaW - b.r
  /\ b.r <= b.pos.y /\ b.pos.y <= s.arenaH - b.r

\* C10: after every stepSim call each combatant's body lies entirely inside
\* the arena.
C10_ArenaConfinement ==
  (Running /\ last = "stepSim") => Inside(state, state.A) /\ Inside(state, state.B)

\* ------------------------------------------------------------------------
\* Rounding (C11)
\* ------------------------------------------------------------------------
Abs(n) == IF n < 0 THEN 0 - n ELSE n

\* The integer nearest to num / den (den > 0), a tie going away from zero.
NearestTiesAway(num, den) ==
  CHOOSE k \in (0 - Abs(num) - 1)..(Abs(num) + 1) :
    IF num >= 0
      THEN 2 * den * k - den <= 2 * num /\ 2 * num < 2 * den * k + den
      ELSE 2 * den * k - den < 2 * num /\ 2 * num <= 2 * den * k + den

\* The integer nearest to num / den (den > 0), a tie going up.
NearestTiesUp(num, den) ==
  CHOOSE k \in (0 - Abs(num) - 1)..(Abs(num) + 1) :
    2 * den * k - den <= 2 * num /\ 2 * num < 2 * den * k + den

WallOn(evs, X, sides) ==
  \E i \in 1..Len(evs) :
    evs[i].e = "wall" /\ evs[i].id = X /\ evs[i].side \in sides

Collided(evs) == \E i \in 1..Len(evs) : evs[i].e = "collide"

\* What one pipeline step from s to t, having appended evs, shows of the
\* roundings under rule R: on an axis with no wall event and no collision
\* the position has moved by R(v * speedMult / 1000); on an axis with a wall
\* event, no collision and no hit taken, the velocity is
\* R(-v * wallRestitution / 1000).
StepRoundsBy(R(_, _), s, t, evs) ==
  \A X \in {"A", "B"} :
    LET b == Ball(s, X)
        c == Ball(t, X)
    IN  /\ (~Collided(evs) /\ ~WallOn(evs, X, {"L", "R"})) =>
             c.pos.x = b.pos.x + R(b.vel.x * b.speedMult, 1000)
        /\ (~Collided(evs) /\ ~WallOn(evs, X, {"T", "B"})) =>
             c.pos.y = b.pos.y + R(b.vel.y * b.speedMult, 1000)
        /\ (~Collided(evs) /\ HitsTo(evs, X) = {} /\ WallOn(evs, X, {"L", "R"})) =>
             c.vel.x = R((0 - b.vel.x) * s.wallRest, 1000)
        /\ (~Collided(evs) /\ HitsTo(evs, X) = {} /\ WallOn(evs, X, {"T", "B"})) =>
             c.vel.y = R((0 - b.vel.y) * s.wallRest, 1000)

\* C11 as stated: the translation and the wall reflection round to the
\* nearest integer, a tie going away from zero.
C11_AsStated ==
  [][(StepCall /\ runsPipeline(state)) =>
       StepRoundsBy(NearestTiesAway, state, state', NewEvents)]_vars

\* C11 amended: the translation and the wall reflection round to the nearest
\* integer, a tie going up (towards +infinity) whatever the sign.
C11_RoundingRule ==
  [][(StepCall /\ runsPipeline(state)) =>
       StepRoundsBy(NearestTiesUp, state, state', NewEvents)]_vars

\* The states k stepSim calls after createSim(spec).
RECURSIVE After(_)
After(k) ==
  IF k = 0 THEN {createSim(spec).state}
  ELSE UNION {{stepSim(s, fr) :
                 fr \in IF runsPipeline(s)
                          THEN collisionRoundings(movedAndBounced(s))
                          ELSE {NoRounding}} : s \in After(k - 1)}

\* The states a pipeline step can lead from to the current state.
Before ==
  IF last = "stepSim" /\ state.tick >= 1
    THEN {s \in After(state.tick - 1) :
            /\ runsPipeline(s)
            /\ \E fr \in collisionRoundings(movedAndBounced(s)) :
                 stepSim(s, fr) = state}
    ELSE {}

\* C11 witness: a pipeline step has just moved a combatant with velocity
\* component -1 and speedMult 500 (the exact value -0.5) by 0 on that axis,
\* with no wall event on it and no collision.
C11_Witness ==
  /\ Running
  /\ \E s \in Before : \E X \in {"A", "B"} :
       LET evs == SubSeq(state.events, Len(s.events) + 1, Len(state.events))
       IN  /\ Ball(s, X).vel.x = -1 /\ Ball(s, X).speedMult = 500
           /\ ~Collided(evs) /\ ~WallOn(evs, X, {"L", "R"})
           /\ Ball(state, X).pos.x = Ball(s, X).pos.x

\* ------------------------------------------------------------------------
\* Event ordering (C12)
\* ------------------------------------------------------------------------
\* The place of an event within its tick, in pipeline order.
PipelineRank(ev) ==
  CASE ev.e = "wall" ->
         (IF ev.id = "A" THEN 0 ELSE 2) + (IF ev.side \in {"L", "R"} THEN 1 ELSE 2)
    [] ev.e = "collide" -> 5
    [] ev.e = "hit"     -> IF ev.from = "A" THEN 6 ELSE 8
    [] ev.e = "dead"    -> IF ev.id = "B" THEN 7 ELSE 9
    [] ev.e = "timeout" -> 10

IsPrefix(a, b) == Len(a) <= Len(b) /\ SubSeq(b, 1, Len(a)) = a

\* C12: the log only grows by appending; its t fields never decrease; the
\* events of one tick are in pipeline order (A's wall events, x side before
\* y side, then B's, then at most one collide, then hit A->B, dead B,
\* hit B->A, dead A), each kind at most once; a collide names a = A, b = B
\* and a hit goes to the other combatant; and every event a call appends
\* carries the tick counter's value from before the call.
C12_EventOrdering ==
  /\ [](Running =>
          LET evs == state.events
          IN  /\ \A i, j \in 1..Len(evs) :
                   i < j => /\ evs[i].t <= evs[j].t
                            /\ evs[i].t = evs[j].t =>
                                 PipelineRank(evs[i]) < PipelineRank(evs[j])
              /\ \A i \in 1..Len(evs) :
                   /\ evs[i].e = "collide" => evs[i].a = "A" /\ evs[i].b = "B"
                   /\ evs[i].e = "hit" => evs[i].to = Other(evs[i].from))
  /\ [][StepCall =>
          /\ IsPrefix(state.events, state'.events)
          /\ \A i \in 1..Len(NewEvents) : NewEvents[i].t = state.tick]_vars

\* The pipeline ranks of the events of evs with tick t.
KindsAt(evs, t) ==
  {PipelineRank(evs[i]) : i \in {k \in 1..Len(evs) : evs[k].t = t}}

\* C12 witness: one tick of the log holds a wall event of A, a collide and
\* hits in both directions, and a later tick ends with the hit A->B that
\* kills B.
C12_Witness ==
  /\ Running
  /\ \E t1, t2 \in 0..maxTicks :
       /\ t1 < t2
       /\ KindsAt(state.events, t1) = {1, 5, 6, 8}
       /\ {6, 7} \subseteq KindsAt(state.events, t2)

\* ------------------------------------------------------------------------
\* Kill precedence (C13)
\* ------------------------------------------------------------------------
DeadEvents(evs) == {i \in 1..Len(evs) : evs[i].e = "dead"}

\* C13: in a step whose hit check of A kills B, B's hit check does nothing:
\* no hit event from B, A's hp unchanged and A's velocity as the collision
\* step left it, B's hitCount and damageDealt unchanged, and only the two
\* draws of A's hit taken from the shared stream.  At most one combatant is
\* ever not alive, the log holds at most one dead event, and a winner by
\* elimination is alive.
C13_KillPrecedence ==
  /\ [](Running =>
          /\ state.A.alive \/ state.B.alive
          /\ Cardinality(DeadEvents(state.events)) <= 1
          /\ (state.done /\ LastEvent(state).e = "dead") =>
               /\ Ball(state, state.winner).alive
               /\ LastEvent(state).id = Other(state.winner))
  /\ [][(StepCall /\ state.B.alive /\ ~state'.B.alive) =>
          /\ HitsTo(NewEvents, "A") = {}
          /\ state'.A.hp = state.A.hp
          /\ state'.A.alive
          /\ state'.B.hitCount = state.B.hitCount
          /\ state'.B.damageDealt = state.B.damageDealt
          /\ state'.rng.n = state.rng.n + 2
          /\ \E fr \in collisionRoundings(movedAndBounced(state)) :
               state'.A.vel =
                 resolveBallBallCollision(movedAndBounced(state), fr).A.vel]_vars

\* C13 witness: A's hit has killed B in a step that left B's weapon tip in
\* contact with A, and A is unhurt by that step.
C13_Witness ==
  /\ Running /\ state.done /\ ~state.B.alive /\ state.A.alive
  /\ tipInContact(state.B, state.A)
  /\ state.winner = "A"
  /\ \E s \in Before : s.A.hp = state.A.hp /\ s.B.hitCount = state.B.hitCount

\* ------------------------------------------------------------------------
\* Wall reflection (C14)
\* ------------------------------------------------------------------------
\* One axis of the wall step as the claim states it: p the position after
\* translation, r the radius, size the arena's extent, v the velocity
\* component, lo and hi the two sides of the axis.
AxisBounce(p, r, size, v, rest, lo, hi) ==
  IF p - r < 0
    THEN [pos |-> r, vel |-> NearestTiesUp((0 - v) * rest, 1000),
          ev |-> <<lo>>]
  ELSE IF p + r > size
    THEN [pos |-> size - r, vel |-> NearestTiesUp((0 - v) * rest, 1000),
          ev |-> <<hi>>]
  ELSE [pos |-> p, vel |-> v, ev |-> <<>>]

\* The sides of the wall events of X in evs, in log order.
WallSides(evs, X) ==
  LET IsWallOfX(ev) == ev.e = "wall" /\ ev.id = X
      walls == SelectSeq(evs, IsWallOfX)
  IN  [i \in 1..Len(walls) |-> walls[i].side]

\* C14: in a pipeline step each combatant gets a wall event on an axis
\* exactly when, after translation, pos - r < 0 (L / T) or pos + r > arena
\* size (R / B) there, at most one per axis; with it the position on that
\* axis is r or arena size - r and the velocity component is
\* round(-v * wallRestitution / 1000); an axis without a wall event keeps its
\* translated position and its velocity, and nothing else of the combatant
\* changes in the wall step.
C14_WallReflection ==
  [][(StepCall /\ runsPipeline(state)) =>
       LET s3 == movedAndBounced(state)
       IN  \A X \in {"A", "B"} :
             LET b  == Ball(state, X)
                 w  == Ball(s3, X)
                 ax == AxisBounce(
                         b.pos.x + NearestTiesUp(b.vel.x * b.speedMult, 1000),
                         b.r, state.arenaW, b.vel.x, state.wallRest, "L", "R")
                 ay == AxisBounce(
                         b.pos.y + NearestTiesUp(b.vel.y * b.speedMult, 1000),
                         b.r, state.arenaH, b.vel.y, state.wallRest, "T", "B")
             IN  /\ WallSides(NewEvents, X) = ax.ev \o ay.ev
                 /\ w = [b EXCEPT !.theta = w.theta,
                                  !.pos = Vec(ax.pos, ay.pos),
                                  !.vel = Vec(ax.vel, ay.vel)]
                 /\ ~Collided(NewEvents) => Ball(state', X).pos = w.pos
                 /\ (~Collided(NewEvents) /\ HitsTo(NewEvents, X) = {}) =>
                      Ball(state', X).vel = w.vel]_vars

\* C14 witness: a corner case; one step gave A a wall event on each axis,
\* with no collision and no hit on A in that step, leaving A against both
\* walls.
C14_Witness ==
  /\ Running /\ last = "stepSim" /\ state.tick >= 1
  /\ LET t == state.tick - 1
     IN  /\ {1, 2} \subseteq KindsAt(state.events, t)
         /\ KindsAt(state.events, t) \cap {5, 8} = {}
  /\ state.A.pos.x \in {state.A.r, state.arenaW - state.A.r}
  /\ state.A.pos.y \in {state.A.r, state.arenaH - state.A.r}

\* ------------------------------------------------------------------------
\* Shared random stream (C15)
\* ------------------------------------------------------------------------
\* The generator after n calls, starting from g.
RECURSIVE Drawn(_, _)
Drawn(g, n) == IF n = 0 THEN g ELSE Drawn(rngAdvance(g), n - 1)

CoinFlipped(s) ==
  s.done /\ Len(s.events) > 0 /\ LastEvent(s).e = "timeout" /\ BothTied(s)

\* The number of hit events in evs.
HitCountOf(evs) == Cardinality({i \in 1..Len(evs) : evs[i].e = "hit"})

\* C15: the shared stream, seeded by the description's seed alone, has at
\* every moment been advanced 2 * (number of hit events in the log) times,
\* plus once after a timeout decided by the coin flip; the two draws of a
\* hit are, in order, the victim's x and y velocity jitter.
C15_SharedStream ==
  /\ [](Running =>
          LET n == 2 * HitCountOf(state.events)
                   + (IF CoinFlipped(state) THEN 1 ELSE 0)
          IN  /\ state.rng.n = n
              /\ state.rng = Drawn(mulberry32(ToUint32(spec.seed)), n))
  /\ [][(StepCall /\ HitCountOf(NewEvents) = 1) =>
          \A X \in {"A", "B"} :
            HitsTo(NewEvents, X) # {} =>
              LET g1 == rngAdvance(state.rng)
                  g2 == rngAdvance(g1)
                  s3 == movedAndBounced(state)
              IN  /\ state'.rng = g2
                  /\ \E fr \in collisionRoundings(s3) :
                       LET v == resolveBallBallCollision(s3, fr)
                       IN  /\ Ball(state', X).vel.x =
                                Ball(v, X).vel.x + hitJitter(rngWord(g1), state.SCALE)
                           /\ Ball(state', X).vel.y =
                                Ball(v, X).vel.y + hitJitter(rngWord(g2), state.SCALE)
                           /\ Ball(state', Other(X)).vel = Ball(v, Other(X)).vel]_vars

\* C15 witness: a match in which hits were made and which then timed out
\* with hp and damageDealt tied, the coin flip being the one extra draw.
C15_Witness ==
  /\ Running /\ CoinFlipped(state)
  /\ HitCountOf(state.events) >= 2
  /\ state.rng.n = 2 * HitCountOf(state.events) + 1

\* ------------------------------------------------------------------------
\* Collision trigger (C16)
\* ------------------------------------------------------------------------
CollideEvents(evs) == {i \in 1..Len(evs) : evs[i].e = "collide"}

\* C16: in the collision step of a pipeline step, with d2 the squared centre
\* distance and rSum the radius sum after the wall step: if d2 = 0 or
\* d2 > rSum^2 no collide event is emitted and both positions and both
\* velocities are left as they were; if 0 < d2 <= rSum^2 exactly one collide
\* event, {a: A, b: B}, is emitted for that tick.
C16_CollisionTrigger ==
  [][(StepCall /\ runsPipeline(state)) =>
       LET s3 == movedAndBounced(state)
           d2 == dist2(s3.A.pos, s3.B.pos)
           rSum == s3.A.r + s3.B.r
       IN  IF d2 = 0 \/ d2 > rSum * rSum
             THEN /\ CollideEvents(NewEvents) = {}
                  /\ \A fr \in collisionRoundings(s3) :
                       resolveBallBallCollision(s3, fr) = s3
                  /\ \A X \in {"A", "B"} :
                       /\ Ball(state', X).pos = Ball(s3, X).pos
                       /\ HitsTo(NewEvents, X) = {} =>
                            Ball(state', X).vel = Ball(s3, X).vel
             ELSE /\ Cardinality(CollideEvents(NewEvents)) = 1
                  /\ \A i \in CollideEvents(NewEvents) :
                       NewEvents[i] = [t |-> state.tick, e |-> "collide",
                                       a |-> "A", b |-> "B"]]_vars

\* C16 witness: a step has just brought the two centres, apart before it,
\* onto the same point, both combatants alive, with no collide event for its
\* tick.
C16_Witness ==
  /\ Running /\ last = "stepSim" /\ state.tick >= 1
  /\ state.A.alive /\ state.B.alive
  /\ state.A.pos = state.B.pos
  /\ 5 \notin KindsAt(state.events, state.tick - 1)
  /\ \E s \in Before : s.A.pos # s.B.pos

\* ------------------------------------------------------------------------
\* Collision is equal and opposite (C17)
\* ------------------------------------------------------------------------
VecSum(a, b) == Vec(a.x + b.x, a.y + b.y)

\* C17: the collision step leaves A.vel + B.vel and A.pos + B.pos as they
\* were after the wall step, whatever rounded impulse and push values it
\* uses; the hit checks move nobody, so the position sum is still that at
\* the end of the call, and so is the velocity sum when the step made no hit.
C17_EqualAndOpposite ==
  [][(StepCall /\ runsPipeline(state)) =>
       LET s3 == movedAndBounced(state)
       IN  /\ \A fr \in collisionRoundings(s3) :
                LET s4 == resolveBallBallCollision(s3, fr)
                IN  /\ VecSum(s4.A.vel, s4.B.vel) = VecSum(s3.A.vel, s3.B.vel)
                    /\ VecSum(s4.A.pos, s4.B.pos) = VecSum(s3.A.pos, s3.B.pos)
           /\ VecSum(state'.A.pos, state'.B.pos) = VecSum(s3.A.pos, s3.B.pos)
           /\ HitCountOf(NewEvents) = 0 =>
                VecSum(state'.A.vel, state'.B.vel) = VecSum(s3.A.vel, s3.B.vel)]_vars

\* C17 witness: a step with a collision and no hit has just changed both
\* velocities and pushed both bodies apart.
C17_Witness ==
  /\ Running /\ last = "stepSim" /\ state.tick >= 1
  /\ KindsAt(state.events, state.tick - 1) \cap {5, 6, 8} = {5}
  /\ \E s \in Before :
       LET s3 == movedAndBounced(s)
       IN  /\ state.A.vel # s3.A.vel /\ state.B.vel # s3.B.vel
           /\ state.A.pos # s3.A.pos /\ state.B.pos # s3.B.pos

\* ------------------------------------------------------------------------
\* Terminal event and winner (C18)
\* ------------------------------------------------------------------------
TerminalEvents(evs) == {i \in 1..Len(evs) : evs[i].e \in {"dead", "timeout"}}

RECURSIVE DamageFrom(_, _)
DamageFrom(evs, X) ==
  IF evs = <<>> THEN 0
  ELSE (IF Head(evs).e = "hit" /\ Head(evs).from = X THEN Head(evs).dmg ELSE 0)
       + DamageFrom(Tail(evs), X)

\* C19: damageDealt of X always equals the sum of the dmg fields of the hit
\* events from X in the log, and equals the opponent's starting hp minus its
\* current hp.
C19_DamageConservation ==
  Running =>
    \A X \in {"A", "B"} :
      /\ Ball(state, X).damageDealt = DamageFrom(state.events, X)
      /\ Ball(state, X).damageDealt = StartHp(Other(X)) - Ball(state, Other(X)).hp

\* C19 witness: both combatants have dealt damage, one of them 3 or more
\* with a ramping weapon (1, then 2).
C19_Witness ==
  /\ Running
  /\ \E X \in {"A", "B"} :
       /\ Ball(state, X).ramp > 0 /\ Ball(state, X).damageDealt >= 3
       /\ Ball(state, Other(X)).damageDealt > 0

\* C20: with both starting hp values > 0, a combatant is alive exactly when
\* its hp is > 0, and no stepSim call changes the hp of a combatant that is
\* not alive.
C20_AliveMatchesHealth ==
  /\ [](Running => \A X \in {"A", "B"} :
                     Ball(state, X).alive <=> Ball(state, X).hp > 0)
  /\ [][StepCall => \A X \in {"A", "B"} :
                      ~Ball(state, X).alive =>
                        /\ Ball(state', X).hp = Ball(state, X).hp
                        /\ ~Ball(state', X).alive]_vars

\* C20 witness: a combatant died with hp below zero, the other one, itself
\* hit before, lives on, and stepSim has been called again since.
C20_Witness ==
  /\ Running /\ state.done /\ calls > state.tick
  /\ \E X \in {"A", "B"} :
       /\ ~Ball(state, X).alive /\ Ball(state, X).hp < 0
       /\ Ball(state, Other(X)).alive
       /\ Ball(state, Other(X)).hp < StartHp(Other(X))

=============================================================================
